---- MODULE Spec2Model ----
(***************************************************************************)
(* Model of symbol_resnext_ibn_a_w_d_v2.py: the symbolic graph built by    *)
(* resnext() out of residual_unit() and ibn_block().                       *)
(*                                                                         *)
(* The graph is the sequence of the symbols the builder creates, in        *)
(* creation order; a node refers to its inputs by their position.  One     *)
(* call of resnext is one behaviour: its arguments are fixed by Init and   *)
(* the actions are the successive statements of the function.              *)
(***************************************************************************)
EXTENDS Integers, Sequences, FiniteSets, TLC

\* ---------------------------------------------------------------- bounds
MaxStage == 2
MaxUnits == 2

\* channel widths offered to filter_list; 2048 is the width residual_unit
\* special-cases
NoIbnFilter == 2048
FilterValues == {64, NoIbnFilter}
\* the dataset types of the if/elif chain, and one string it has no branch for
DataTypes == {"cifar10", "imagenet", "vggface", "msface", "mnist"}

RECURSIVE SeqsUpTo(_, _)
SeqsUpTo(S, n) ==
    IF n = 0 THEN {<<>>}
    ELSE LET shorter == SeqsUpTo(S, n - 1)
         IN  shorter \cup {Append(s, x) : s \in {t \in shorter : Len(t) = n - 1}, x \in S}

VARIABLES units, num_stage, filter_list, data_type, ibn, bottle_neck,
          pc, err, graph, body, i, j, calls

args == <<units, num_stage, filter_list, data_type, ibn, bottle_neck>>
vars == <<units, num_stage, filter_list, data_type, ibn, bottle_neck,
          pc, err, graph, body, i, j, calls>>

\* ------------------------------------------------------------ graph nodes
\* src: positions of the input symbols; pick: which output of src[1] is read
Node(op, name, src, pick, nf, kernel, stride, pad) ==
    [op |-> op, name |-> name, src |-> src, pick |-> pick, nf |-> nf,
     kernel |-> kernel, stride |-> stride, pad |-> pad]

Variable(name) == Node("Variable", name, <<>>, 0, 0, <<>>, <<>>, <<>>)
Convolution(name, d, nf, kernel, stride, pad) ==
    Node("Convolution", name, <<d>>, 0, nf, kernel, stride, pad)
BatchNorm(name, d, pick) == Node("BatchNorm", name, <<d>>, pick, 0, <<>>, <<>>, <<>>)
InstanceNorm(name, d, pick) == Node("InstanceNorm", name, <<d>>, pick, 0, <<>>, <<>>, <<>>)
Activation(name, d) == Node("Activation", name, <<d>>, 0, 0, <<>>, <<>>, <<>>)
Split(d) == Node("split", "", <<d>>, 0, 0, <<>>, <<>>, <<>>)
Concat(name, a, b) == Node("Concat", name, <<a, b>>, 0, 0, <<>>, <<>>, <<>>)
Plus(a, b) == Node("_Plus", "", <<a, b>>, 0, 0, <<>>, <<>>, <<>>)
Pooling(name, d, kernel, stride, pad) ==
    Node("Pooling", name, <<d>>, 0, 0, kernel, stride, pad)
Flatten(d) == Node("Flatten", "", <<d>>, 0, 0, <<>>, <<>>, <<>>)
Dropout(name, d) == Node("Dropout", name, <<d>>, 0, 0, <<>>, <<>>, <<>>)
FullyConnected(name, d) == Node("FullyConnected", name, <<d>>, 0, 0, <<>>, <<>>, <<>>)
SoftmaxOutput(name, d) == Node("SoftmaxOutput", name, <<d>>, 0, 0, <<>>, <<>>, <<>>)

\* ------------------------------------------------------------- ibn_block
\* the block's output is the last node of the result
ibn_block(g, data, num_filter, name) ==
    LET s == Len(g) + 1
    IN  g \o << Split(data),
                InstanceNorm(name \o "_in1", s, 0),
                BatchNorm(name \o "_bn1", s, 1),
                Concat(name \o "_ibn1", s + 1, s + 2) >>

\* --------------------------------------------------------- residual_unit
\* the unit's output is the last node of the result
residual_unit(g, data, num_filter, stride, dim_match, name, ibnArg, bottleNeck) ==
    IF bottleNeck
    THEN LET ibnEff == IF num_filter = NoIbnFilter THEN FALSE ELSE ibnArg
             half == num_filter \div 2
             g1 == Append(g, Convolution(name \o "_conv1", data, half,
                                         <<1, 1>>, <<1, 1>>, <<0, 0>>))
             g2 == IF ibnEff THEN ibn_block(g1, data, half, name)
                   ELSE Append(g1, BatchNorm(name \o "_bn1", data, 0))
             bn1 == Len(g2)
             g3 == g2 \o << Activation(name \o "_relu1", bn1),
                            Convolution(name \o "_conv2", bn1 + 1, half,
                                        <<3, 3>>, stride, <<1, 1>>),
                            BatchNorm(name \o "_bn2", bn1 + 2, 0),
                            Activation(name \o "_relu2", bn1 + 3),
                            Convolution(name \o "_conv3", bn1 + 4, num_filter,
                                        <<1, 1>>, <<1, 1>>, <<0, 0>>),
                            BatchNorm(name \o "_bn3", bn1 + 5, 0) >>
             bn3 == Len(g3)
             g4 == IF dim_match THEN g3
                   ELSE IF stride = <<2, 2>>
                        THEN g3 \o << Convolution(name \o "_sc", data, num_filter,
                                                  <<3, 3>>, stride, <<1, 1>>),
                                      BatchNorm(name \o "_sc_bn", bn3 + 1, 0) >>
                        ELSE g3 \o << Convolution(name \o "_sc", data, num_filter,
                                                  <<1, 1>>, stride, <<0, 0>>),
                                      BatchNorm(name \o "_sc_bn", bn3 + 1, 0) >>
             shortcut == IF dim_match THEN data ELSE Len(g4)
         IN  g4 \o << Plus(bn3, shortcut),
                      Activation(name \o "_relu", Len(g4) + 1) >>
    ELSE LET c1 == Len(g) + 1
             g3 == g \o << Convolution(name \o "_conv1", data, num_filter,
                                       <<3, 3>>, stride, <<1, 1>>),
                           BatchNorm(name \o "_bn1", c1, 0),
                           Activation(name \o "_relu1", c1 + 1),
                           Convolution(name \o "_conv2", c1 + 2, num_filter,
                                       <<3, 3>>, <<1, 1>>, <<1, 1>>),
                           BatchNorm(name \o "_bn2", c1 + 3, 0) >>
             bn2 == Len(g3)
             g4 == IF dim_match THEN g3
                   ELSE g3 \o << Convolution(name \o "_sc", data, num_filter,
                                             <<1, 1>>, stride, <<>>),
                                 BatchNorm(name \o "_sc_bn", bn2 + 1, 0) >>
             shortcut == IF dim_match THEN data ELSE Len(g4)
         IN  g4 \o << Plus(bn2, shortcut),
                      Activation(name \o "_relu", Len(g4) + 1) >>

\* ---------------------------------------------------------------- resnext
\* the assertion with its comparison inverted
AssertHoldsInverted(us, ns) == Len(us) # ns

AssertHolds(us, ns) == Len(us) = ns

\* the if/elif chain as the docstring lists it, without the msface branch
StemBranchNoMsface(dt) ==
    IF dt = "cifar10" THEN "cifar10"
    ELSE IF dt = "imagenet" THEN "imagenet"
    ELSE IF dt = "vggface" THEN "vggface"
    ELSE "raise"

StemBranch(dt) ==
    IF dt = "cifar10" THEN "cifar10"
    ELSE IF dt = "imagenet" THEN "imagenet"
    ELSE IF dt = "vggface" THEN "vggface"
    ELSE IF dt = "msface" THEN "msface"
    ELSE "raise"

\* the stem shared, statement for statement, by imagenet, vggface and msface
ThreeConvStem(g, data, f0) ==
    LET n == Len(g)
    IN  g \o << Convolution("conv01", data, f0, <<3, 3>>, <<1, 1>>, <<1, 1>>),
                BatchNorm("bn01", n + 1, 0),
                Activation("relu01", n + 2),
                Convolution("conv02", data, f0, <<3, 3>>, <<1, 1>>, <<1, 1>>),
                BatchNorm("bn02", n + 4, 0),
                Activation("relu02", n + 5),
                Convolution("conv03", n + 6, f0, <<3, 3>>, <<2, 2>>, <<1, 1>>),
                BatchNorm("bn03", n + 7, 0),
                Activation("relu03", n + 8),
                Pooling("", n + 9, <<3, 3>>, <<2, 2>>, <<1, 1>>) >>

\* the first unit of every stage strided, stage 1 included
StageStrideAlways2(s) == <<2, 2>>

StageStride(s) == IF s = 0 THEN <<1, 1>> ELSE <<2, 2>>

\* 'stage%d_unit%d' % (s, u)
UnitName(s, u) == "stage" \o ToString(s) \o "_unit" \o ToString(u)

\* the inner loop numbering its units from 1, like the unit before the loop
NextUnitIndexOffByOne(k) == k + 1

NextUnitIndex(k) == k + 2

Call(name, stage, num_filter, stride, dim_match, first, last) ==
    [name |-> name, stage |-> stage, num_filter |-> num_filter, stride |-> stride,
     dim_match |-> dim_match, data |-> body, first |-> first, last |-> last]

Init ==
    /\ num_stage \in 0..MaxStage
    /\ units \in SeqsUpTo(0..MaxUnits, MaxStage)
    /\ filter_list \in SeqsUpTo(FilterValues, MaxStage + 1)
    /\ data_type \in DataTypes
    /\ ibn \in BOOLEAN
    /\ bottle_neck \in BOOLEAN
    /\ pc = "assert"
    /\ err = "none"
    /\ graph = <<>>
    /\ body = 0
    /\ i = 0
    /\ j = 0
    /\ calls = <<>>

Raise(e) ==
    /\ pc' = "raised"
    /\ err' = e
    /\ UNCHANGED <<args, graph, body, i, j, calls>>

AssertPass ==
    /\ pc = "assert"
    /\ AssertHolds(units, num_stage)
    /\ pc' = "input"
    /\ UNCHANGED <<args, err, graph, body, i, j, calls>>

AssertFail ==
    /\ pc = "assert"
    /\ ~AssertHolds(units, num_stage)
    /\ Raise("AssertionError")

MakeInput ==
    /\ pc = "input"
    /\ graph' = << Variable("data"), BatchNorm("bn_data", 1, 0) >>
    /\ body' = 2
    /\ pc' = "stem"
    /\ UNCHANGED <<args, err, i, j, calls>>

StemDone(g) ==
    /\ graph' = g
    /\ body' = Len(g)
    /\ pc' = "loop"
    /\ i' = 0
    /\ UNCHANGED <<args, err, j, calls>>

StemCifar10 ==
    /\ pc = "stem"
    /\ StemBranch(data_type) = "cifar10"
    /\ Len(filter_list) >= 1
    /\ StemDone(Append(graph, Convolution("conv0", body, filter_list[1],
                                          <<3, 3>>, <<1, 1>>, <<1, 1>>)))

StemImagenet ==
    /\ pc = "stem"
    /\ StemBranch(data_type) = "imagenet"
    /\ Len(filter_list) >= 1
    /\ StemDone(ThreeConvStem(graph, body, filter_list[1]))

StemVggface ==
    /\ pc = "stem"
    /\ StemBranch(data_type) = "vggface"
    /\ Len(filter_list) >= 1
    /\ StemDone(ThreeConvStem(graph, body, filter_list[1]))

StemMsface ==
    /\ pc = "stem"
    /\ StemBranch(data_type) = "msface"
    /\ Len(filter_list) >= 1
    /\ StemDone(ThreeConvStem(graph, body, filter_list[1]))

\* filter_list[0] on an empty list
StemIndexError ==
    /\ pc = "stem"
    /\ StemBranch(data_type) # "raise"
    /\ Len(filter_list) = 0
    /\ Raise("IndexError")

StemUnsupported ==
    /\ pc = "stem"
    /\ StemBranch(data_type) = "raise"
    /\ Raise("ValueError")

Build(name, num_filter, stride, dim_match) ==
    LET g == residual_unit(graph, body, num_filter, stride, dim_match, name,
                           ibn, bottle_neck)
    IN  /\ graph' = g
        /\ body' = Len(g)
        /\ calls' = Append(calls, Call(name, i + 1, num_filter, stride, dim_match,
                                       Len(graph) + 1, Len(g)))

StageFirstUnit ==
    /\ pc = "loop"
    /\ i < num_stage
    /\ Len(filter_list) >= i + 2
    /\ Build(UnitName(i + 1, 1), filter_list[i + 2], StageStride(i), FALSE)
    /\ j' = 0
    /\ pc' = "inner"
    /\ UNCHANGED <<args, err, i>>

\* filter_list[i+1] past the end of the list
StageIndexError ==
    /\ pc = "loop"
    /\ i < num_stage
    /\ Len(filter_list) < i + 2
    /\ Raise("IndexError")

StageNextUnit ==
    /\ pc = "inner"
    /\ j < units[i + 1] - 1
    /\ Build(UnitName(i + 1, NextUnitIndex(j)), filter_list[i + 2], <<1, 1>>, TRUE)
    /\ j' = j + 1
    /\ UNCHANGED <<args, err, i, pc>>

StageEnd ==
    /\ pc = "inner"
    /\ j >= units[i + 1] - 1
    /\ i' = i + 1
    /\ pc' = "loop"
    /\ UNCHANGED <<args, err, graph, body, j, calls>>

Classifier ==
    /\ pc = "loop"
    /\ i >= num_stage
    /\ LET n == Len(graph)
       IN  graph' = graph \o << Pooling("pool1", body, <<7, 7>>, <<>>, <<>>),
                                Flatten(n + 1),
                                Dropout("dp1", n + 2),
                                FullyConnected("fc1", n + 3),
                                SoftmaxOutput("softmax", n + 4) >>
    /\ body' = Len(graph) + 5
    /\ pc' = "done"
    /\ UNCHANGED <<args, err, i, j, calls>>

Next ==
    \/ AssertPass
    \/ AssertFail
    \/ MakeInput
    \/ StemCifar10
    \/ StemImagenet
    \/ StemVggface
    \/ StemMsface
    \/ StemIndexError
    \/ StemUnsupported
    \/ StageFirstUnit
    \/ StageIndexError
    \/ StageNextUnit
    \/ StageEnd
    \/ Classifier

Spec == Init /\ [][Next]_vars

\* ------------------------------------------------- reading the built graph
Handled == data_type \in {"cifar10", "imagenet", "vggface", "msface"}
Terminated == pc \in {"done", "raised"}
ExplicitErrors == {"AssertionError", "ValueError"}

Range(s) == {s[k] : k \in DOMAIN s}

\* the nodes the symbol at position k depends on (inputs precede their users)
RECURSIVE Mark(_, _, _)
Mark(g, k, S) ==
    IF k = 0 THEN S
    ELSE Mark(g, k - 1, IF k \in S THEN S \cup Range(g[k].src) ELSE S)

\* the nodes of the graph resnext returns
Returned == IF pc = "done" THEN Mark(graph, Len(graph), {Len(graph)}) ELSE {}

\* channel count of a node's output (the image fed to 'data' has 3)
RECURSIVE Channels(_, _)
Channels(g, k) ==
    LET n == g[k]
    IN  IF n.op = "Variable" THEN 3
        ELSE IF n.op = "Convolution" THEN n.nf
        ELSE IF n.op = "Concat" THEN Channels(g, n.src[1]) + Channels(g, n.src[2])
        ELSE IF g[n.src[1]].op = "split" THEN Channels(g, n.src[1]) \div 2
        ELSE Channels(g, n.src[1])

\* by how much a node's output is down-sampled relative to 'data'
RECURSIVE Scale(_, _)
Scale(g, k) ==
    LET n == g[k]
    IN  IF n.op = "Variable" THEN 1
        ELSE IF n.op \in {"Convolution", "Pooling"} /\ n.stride # <<>>
             THEN n.stride[1] * Scale(g, n.src[1])
        ELSE Scale(g, n.src[1])

CallSet == Range(calls)
NodesOf(c) == c.first .. c.last
IsShortcutConv(k) ==
    /\ graph[k].op = "Convolution"
    /\ \E c \in CallSet : k \in NodesOf(c) /\ graph[k].name = c.name \o "_sc"

\* ----------------------------------------------------------------- claims

\* C1 (as stated): a call with an unsupported data_type raises ValueError,
\* returns nothing and builds no residual unit; a call with a handled
\* data_type, len(units) == num_stage and len(filter_list) >= num_stage + 1
\* raises nothing and returns a graph.
C1_AsStated ==
    /\ ~Handled => calls = <<>>
    /\ Terminated /\ ~Handled => pc = "raised" /\ err = "ValueError"
    /\ Terminated /\ Handled /\ Len(units) = num_stage
         /\ Len(filter_list) >= num_stage + 1
       => pc = "done" /\ err = "none"

\* C1 (amended): the same, the ValueError only for calls that pass the
\* assertion len(units) == num_stage, which is evaluated first.
C1_UnsupportedRaises ==
    /\ ~Handled => calls = <<>>
    /\ Terminated /\ ~Handled /\ Len(units) = num_stage
       => pc = "raised" /\ err = "ValueError"
    /\ Terminated /\ Handled /\ Len(units) = num_stage
         /\ Len(filter_list) >= num_stage + 1
       => pc = "done" /\ err = "none"

C1_Witness ==
    /\ pc = "raised"
    /\ err = "ValueError"
    /\ ~Handled
    /\ num_stage > 0

\* C2 (as stated): with a handled data_type resnext never explicitly aborts:
\* neither a raise nor an assertion failure is reachable.
C2_AsStated == Handled => err \notin ExplicitErrors

\* C2 (amended): with a handled data_type the only explicit abort is the
\* assertion len(units) == num_stage; when it holds resnext never explicitly
\* aborts, and when it fails the call ends in an AssertionError.
C2_OnlyAssertAborts ==
    /\ Handled /\ Len(units) = num_stage => err \notin ExplicitErrors
    /\ Handled /\ Len(units) # num_stage /\ Terminated => err = "AssertionError"

C2_Witness ==
    /\ pc = "done"
    /\ data_type = "msface"
    /\ num_stage = Len(units)
    /\ num_stage > 0

\* C3 (as stated): for every units list, entries 0 and 1 included, stage i of
\* the returned graph has exactly units[i] residual units, named
\* stage{i+1}_unit1 .. stage{i+1}_unit{units[i]}, each with filter_list[i+1]
\* output channels.
C3_UnitsPerStage ==
    pc = "done" =>
        \A s \in 1 .. num_stage :
            LET built == {c \in CallSet : c.stage = s}
            IN  /\ Cardinality(built) = units[s]
                /\ {c.name : c \in built} = {UnitName(s, u) : u \in 1 .. units[s]}
                /\ \A c \in built : /\ c.last \in Returned
                                    /\ Channels(graph, c.last) = filter_list[s + 1]

\* C4 (as stated): for imagenet, vggface and msface the returned graph has
\* conv01, conv02 and conv03 in a chain, conv02 and conv03 each reading the
\* batch-normalized, ReLU-activated output of the convolution before it.
FedThroughBnRelu(a, b) ==
    LET r == graph[b].src[1]
    IN  /\ graph[r].op = "Activation"
        /\ graph[graph[r].src[1]].op = "BatchNorm"
        /\ graph[graph[r].src[1]].src[1] = a

C4_ThreeConsecutiveConvs ==
    pc = "done" /\ data_type \in {"imagenet", "vggface", "msface"} =>
        \E a, b, c \in Returned :
            /\ graph[a].name = "conv01"
            /\ graph[b].name = "conv02"
            /\ graph[c].name = "conv03"
            /\ graph[a].src[1] = 2
            /\ FedThroughBnRelu(a, b)
            /\ FedThroughBnRelu(b, c)

\* C5 (as stated): every projection shortcut with stride (2,2) is a 3x3
\* convolution with pad (1,1); no shortcut convolution is 1x1 with stride (2,2).
C5_Projection3x3 ==
    \A k \in DOMAIN graph :
        IsShortcutConv(k) /\ graph[k].stride = <<2, 2>> =>
            graph[k].kernel = <<3, 3>> /\ graph[k].pad = <<1, 1>>

\* C6 (as stated): a residual unit built with ibn=True has an IBN block
\* (instance norm and batch norm on the two halves, concatenated) as its
\* first normalization, and one built with ibn=False has no InstanceNorm.
HasIbnBlock(c) ==
    \E k \in NodesOf(c) :
        /\ graph[k].op = "Concat"
        /\ graph[graph[k].src[1]].op = "InstanceNorm"
        /\ graph[graph[k].src[2]].op = "BatchNorm"
        /\ \A m \in NodesOf(c) :
               graph[m].op \in {"BatchNorm", "InstanceNorm"} => m >= graph[k].src[1]

C6_IbnFlagDecides ==
    \A c \in CallSet :
        /\ ibn => HasIbnBlock(c)
        /\ ~ibn => \A k \in NodesOf(c) : graph[k].op # "InstanceNorm"

\* C7: in every returned graph with units[i] >= 1 the two operands of every
\* residual addition have the same channel count and the same down-sampling
\* factor; identity-shortcut units have stride (1,1) and an input of
\* filter_list[i+1] channels; the first unit of stage 1 has stride (1,1) and
\* the first unit of every later stage stride (2,2).
C7_Applies == pc = "done" /\ \A s \in DOMAIN units : units[s] >= 1

C7_Compatible ==
    /\ \A k \in DOMAIN graph :
           graph[k].op = "_Plus" =>
               /\ Channels(graph, graph[k].src[1]) = Channels(graph, graph[k].src[2])
               /\ Scale(graph, graph[k].src[1]) = Scale(graph, graph[k].src[2])
    /\ \A c \in CallSet :
           /\ c.dim_match => /\ c.stride = <<1, 1>>
                             /\ Channels(graph, c.data) = filter_list[c.stage + 1]
           /\ c.name = UnitName(c.stage, 1) =>
                  c.stride = IF c.stage = 1 THEN <<1, 1>> ELSE <<2, 2>>

DownSamplingUnits ==
    {c \in CallSet : Scale(graph, c.last) # Scale(graph, c.data)}

\* C7 (as stated): ... so exactly num_stage - 1 residual units down-sample.
C7_AsStated ==
    C7_Applies => C7_Compatible /\ Cardinality(DownSamplingUnits) = num_stage - 1

\* C7 (amended): ... so exactly num_stage - 1 residual units down-sample when
\* there is a stage, and none when num_stage = 0.
C7_AdditionsCompatible ==
    C7_Applies =>
        /\ C7_Compatible
        /\ Cardinality(DownSamplingUnits) = IF num_stage = 0 THEN 0 ELSE num_stage - 1

C7_Witness ==
    /\ C7_Applies
    /\ num_stage >= 2
    /\ \E c \in CallSet : c.dim_match /\ c.stage = 2
    /\ filter_list[2] # filter_list[3]

\* C8: no two explicitly named operator nodes of a returned graph carry the
\* same name.
C8_NamesUnique ==
    \A a, b \in Returned :
        a # b /\ graph[a].name # "" => graph[a].name # graph[b].name

C8_Witness ==
    /\ pc = "done"
    /\ \E k \in Returned : graph[k].op = "InstanceNorm"
    /\ \E c \in CallSet : c.dim_match /\ c.stage = 2
    /\ \E c \in CallSet : c.dim_match /\ c.stage = 1

====
